---- MODULE Spec2Model ----
(***************************************************************************)
(* A model of src/smtpmail.py: the message builder SmtpMessage (its        *)
(* headers, its content and its attachments) and the transport client      *)
(* SmtpClient (connect, disconnect, send_email, the context manager), run  *)
(* against an SMTP library whose calls may succeed or raise.               *)
(*                                                                         *)
(* Spec runs the client with messages that carry a sender and recipients.  *)
(* SpecRecipients, SpecHeaders and SpecContent run the builder alone, each *)
(* over one group of its methods, and record the arguments of the calls.   *)
(*                                                                         *)
(* A Python string is a sequence of one-character strings, so that the     *)
(* ', '.join of the setters and the .split(', ') of the getters are        *)
(* computed, not assumed to be inverse.                                    *)
(***************************************************************************)
EXTENDS Integers, Sequences, FiniteSets, TLC

VARIABLES
    _message,   \* SmtpMessage._message: the headers, in insertion order
    _payload,   \* SmtpMessage._message: its content (type, body, parts)
    passed,     \* the arguments of the last builder call that records them
    _server,    \* SmtpClient._server: None or the SMTP object held
    conn,       \* the SMTP object _server refers to: its socket and session
    block,      \* "out" or "body": inside a `with client:` block or not
    calls,      \* the calls made by the last operation, in order
    result      \* how the last operation ended

vars == <<_message, _payload, passed, _server, conn, block, calls, result>>

-----------------------------------------------------------------------------
(* Bounds *)

\* longest address list handed to set_recipients for one group
MaxLen == 1

\* SpecHeaders: the header setters are called on messages of fewer headers
MaxHeaders == 2

\* SpecContent: add_attachment is given at most this many paths, and the
\* content methods are called on messages of fewer parts
MaxParts == 2

-----------------------------------------------------------------------------
(* Python values *)

\* self._server = None
None == "None"

\* self._server = smtplib.SMTP(...): the object, whose state is conn
SMTP == "SMTP"

\* what message[name] returns for a header that is not there (Python None)
NoHeader == <<"None">>

Range(s) == {s[i] : i \in 1..Len(s)}

\* str.join
RECURSIVE Join(_, _)
Join(sep, list) ==
    IF list = <<>> THEN <<>>
    ELSE IF Len(list) = 1 THEN list[1]
    ELSE list[1] \o sep \o Join(sep, Tail(list))

\* str.split(sep), sep not empty: cur is the piece being read
RECURSIVE SplitFrom(_, _, _)
SplitFrom(s, sep, cur) ==
    IF s = <<>> THEN <<cur>>
    ELSE IF Len(s) >= Len(sep) /\ SubSeq(s, 1, Len(sep)) = sep
         THEN <<cur>> \o SplitFrom(SubSeq(s, Len(sep) + 1, Len(s)), sep, <<>>)
         ELSE SplitFrom(Tail(s), sep, Append(cur, Head(s)))

Split(s, sep) == SplitFrom(s, sep, <<>>)

COMMASPACE == <<",", " ">>

-----------------------------------------------------------------------------
(* Address validation: email_validator.validate_email(email).normalized *)

Lower(c) == IF c = "X" THEN "x" ELSE c

AtPositions(e) == {i \in 1..Len(e) : e[i] = "@"}

\* one "@", with a local part before it and a domain after it
IsValidEmail(e) ==
    /\ Cardinality(AtPositions(e)) = 1
    /\ \A i \in AtPositions(e) : 1 < i /\ i < Len(e)

\* the normalized form lower-cases the domain
Normalized(e) ==
    LET at == CHOOSE i \in AtPositions(e) : TRUE
    IN  [i \in 1..Len(e) |-> IF i > at THEN Lower(e[i]) ELSE e[i]]

RECURSIVE _validate_emails(_)
_validate_emails(emails) ==
    IF emails = <<>> THEN <<>>
    ELSE IF IsValidEmail(Head(emails))
         THEN <<Normalized(Head(emails))>> \o _validate_emails(Tail(emails))
         ELSE _validate_emails(Tail(emails))

\* the addresses callers pass: two valid ones, one of them with its domain
\* in upper case, and one that is no address
AddrA == <<"a", "@", "x">>
AddrB == <<"b", "@", "X">>
AddrBad == <<"b", "a", "d">>
Candidates == {AddrA, AddrB, AddrBad}

Sender == <<"s", "@", "x">>

RECURSIVE ListsUpTo(_)
ListsUpTo(n) ==
    IF n = 0 THEN {<<>>}
    ELSE LET shorter == ListsUpTo(n - 1)
         IN  shorter \cup {Append(l, a) : l \in {x \in shorter : Len(x) = n - 1},
                                           a \in Candidates}

AddrLists == ListsUpTo(MaxLen)

-----------------------------------------------------------------------------
(* EmailMessage: an ordered list of <<name, value>> headers *)

\* headers the default email policy allows once per message
UniqueHeaders == {"From", "To", "CC", "BCC", "Date", "Subject", "Message-ID"}

CountItems(m, name) == Cardinality({i \in 1..Len(m) : m[i][1] = name})

Contains(m, name) == \E i \in 1..Len(m) : m[i][1] = name

GetItem(m, name) ==
    IF Contains(m, name)
    THEN m[CHOOSE i \in 1..Len(m) :
                /\ m[i][1] = name
                /\ \A j \in 1..(i - 1) : m[j][1] # name][2]
    ELSE NoHeader

\* message[name] = value: appends; a second header of a name that is
\* allowed once, and a value with a line feed in it, raise ValueError and
\* leave the message as it was
SetItem(m, name, value) ==
    IF (name \in UniqueHeaders /\ Contains(m, name)) \/ "\n" \in Range(value)
    THEN [msg |-> m, raised |-> "ValueError"]
    ELSE [msg |-> Append(m, <<name, value>>), raised |-> "none"]

\* EmailMessage.as_string() of the headers: one line per header, then the
\* empty line that ends them
HeaderLine(h) ==
    <<h[1], ":">> \o (IF h[2] = <<>> THEN <<>> ELSE <<" ">> \o h[2])

to_string(m) == [i \in 1..(Len(m) + 1) |->
                    IF i <= Len(m) THEN HeaderLine(m[i]) ELSE <<>>]

set_from_addr(m, from_addr) == SetItem(m, "From", from_addr)

set_to_addr(m, to) == SetItem(m, "To", Join(COMMASPACE, _validate_emails(to)))

set_cc_addr(m, cc) == SetItem(m, "CC", Join(COMMASPACE, _validate_emails(cc)))

set_bcc_addr(m, bcc) ==
    SetItem(m, "BCC", Join(COMMASPACE, _validate_emails(bcc)))

get_to_addr(m) ==
    IF Contains(m, "To") THEN Split(GetItem(m, "To"), COMMASPACE) ELSE <<>>

get_cc_addr(m) ==
    IF Contains(m, "CC") THEN Split(GetItem(m, "CC"), COMMASPACE) ELSE <<>>

get_bcc_addr(m) ==
    IF Contains(m, "BCC") THEN Split(GetItem(m, "BCC"), COMMASPACE) ELSE <<>>

\* list(set(to + cc + bcc)): the order of the list is not defined, so the
\* model keeps the set
get_recipients(m) == Range(get_to_addr(m) \o get_cc_addr(m) \o get_bcc_addr(m))

\* set_recipients(to, cc, bcc): `if cc:` skips an omitted and an empty list
\* alike; an exception of one setter ends the call there
set_recipients(m, to, cc, bcc) ==
    LET r1 == set_to_addr(m, to)
        r2 == IF cc # <<>> THEN set_cc_addr(r1.msg, cc)
              ELSE [msg |-> r1.msg, raised |-> "none"]
        r3 == IF bcc # <<>> THEN set_bcc_addr(r2.msg, bcc)
              ELSE [msg |-> r2.msg, raised |-> "none"]
    IN  IF r1.raised # "none" THEN r1
        ELSE IF r2.raised # "none" THEN r2
        ELSE r3

-----------------------------------------------------------------------------
(* How an operation ends *)

\* raised: "none" for a normal return, else the class of the exception that
\* reaches the caller; text: the parts its message is built from;
\* exc_type: for __exit__, the exception the body raised ("none": none)
Outcome(op, raised, text, exc_type) ==
    [op |-> op, raised |-> raised, text |-> text, exc_type |-> exc_type]

Returned(op) == Outcome(op, "none", <<>>, "none")

NoConn == [tls |-> FALSE, auth |-> FALSE, sock |-> FALSE]

\* EmailMessage(): no Content-Type header and no payload
NoContent == [ctype |-> "none", body |-> "", filename |-> "", parts |-> <<>>]

Init ==
    /\ _message = <<>>
    /\ _payload = NoContent
    /\ passed = <<>>
    /\ _server = None
    /\ conn = NoConn
    /\ block = "out"
    /\ calls = <<>>
    /\ result = Returned("__init__")

-----------------------------------------------------------------------------
(* The message builder's operations *)

NewMessage ==
    /\ _message # <<>> \/ _payload # NoContent
    /\ _message' = <<>>
    /\ _payload' = NoContent
    /\ passed' = <<>>
    /\ calls' = <<>>
    /\ result' = Returned("SmtpMessage")
    /\ UNCHANGED <<_server, conn, block>>

SetFromAddr ==
    LET r == set_from_addr(_message, Sender)
    IN  /\ _message' = r.msg
        /\ calls' = <<>>
        /\ result' = Outcome("set_from_addr", r.raised, <<>>, "none")
        /\ UNCHANGED <<_payload, passed, _server, conn, block>>

\* cc and bcc are read only once set_to_addr(to) has returned
ListsAfterTo(to) ==
    IF set_to_addr(_message, to).raised = "none" THEN AddrLists ELSE {<<>>}

\* what set_recipients can make of the message, over all the lists passed
SetRecipientsResults ==
    UNION {{set_recipients(_message, to, cc, bcc) :
                cc \in ListsAfterTo(to), bcc \in ListsAfterTo(to)} :
           to \in AddrLists}

SetRecipients ==
    \E r \in SetRecipientsResults :
            /\ _message' = r.msg
            /\ calls' = <<>>
            /\ result' = Outcome("set_recipients", r.raised, <<>>, "none")
            /\ UNCHANGED <<_payload, passed, _server, conn, block>>

\* set_recipients(to, cc, bcc), with the lists passed kept in `passed`
SetRecipientsPassing ==
    \E to \in AddrLists :
        \E cc \in ListsAfterTo(to), bcc \in ListsAfterTo(to) :
            LET r == set_recipients(_message, to, cc, bcc)
            IN  /\ _message' = r.msg
                /\ passed' = <<to, cc, bcc>>
                /\ calls' = <<>>
                /\ result' = Outcome("set_recipients", r.raised, <<>>, "none")
                /\ UNCHANGED <<_payload, _server, conn, block>>

\* the builder alone: messages and their recipients
NextRecipients ==
    \/ NewMessage
    \/ SetRecipientsPassing

SpecRecipients == Init /\ [][NextRecipients]_vars

-----------------------------------------------------------------------------
(* The other header setters *)

\* email.utils.formatdate(localtime=True) and email.utils.make_msgid(...)
formatdate == <<"n", "o", "w">>
make_msgid == <<"<", "i", ">">>

Dates == {NoHeader, <<"d">>}
Subjects == {<<"s", "1">>, <<"s", "2">>}
Unsubscribes == {<<"u", "1">>, <<"u", "2">>}

\* the keys and values handed to set_custom: a header of the caller's own and
\* one the policy allows once; a plain value and one with a line feed
CustomKeys == {"X-Tag", "Subject"}
CustomValues == {<<"v">>, <<"v", "\n", "w">>}

\* set_date(date): date None (here NoHeader) stands for the current date
set_date(m, date) ==
    SetItem(m, "Date", IF date = NoHeader THEN formatdate ELSE date)

set_subject(m, subject) == SetItem(m, "Subject", subject)

\* set_message_id(msg_id): both branches assign a make_msgid(...) value
set_message_id(m) == SetItem(m, "Message-ID", make_msgid)

set_list_unsubscribe(m, list_unsubscribe) ==
    SetItem(m, "List-Unsubscribe", list_unsubscribe)

\* a set_custom without its try block
set_custom_unguarded(m, key, value) ==
    [msg |-> SetItem(m, key, value).msg,
     raised |-> SetItem(m, key, value).raised,
     text |-> <<>>]

\* set_custom(key, value): an exception of the assignment is logged and the
\* method returns; text is what it logs as an error
set_custom(m, key, value) ==
    LET r == SetItem(m, key, value)
    IN  IF r.raised = "none"
        THEN [msg |-> r.msg, raised |-> "none", text |-> <<>>]
        ELSE [msg |-> r.msg, raised |-> "none",
              text |-> <<"Failed to set custom header: ", r.raised>>]

\* a header setter ends: the message it leaves, the arguments it was given
Stored(op, r, given, text) ==
    /\ _message' = r.msg
    /\ passed' = given
    /\ calls' = <<>>
    /\ result' = Outcome(op, r.raised, text, "none")

SetDate ==
    /\ Len(_message) < MaxHeaders
    /\ \E date \in Dates :
           Stored("set_date", set_date(_message, date), <<date>>, <<>>)
    /\ UNCHANGED <<_payload, _server, conn, block>>

SetSubject ==
    /\ Len(_message) < MaxHeaders
    /\ \E subject \in Subjects :
           Stored("set_subject", set_subject(_message, subject), <<subject>>, <<>>)
    /\ UNCHANGED <<_payload, _server, conn, block>>

SetMessageId ==
    /\ Len(_message) < MaxHeaders
    /\ Stored("set_message_id", set_message_id(_message), <<>>, <<>>)
    /\ UNCHANGED <<_payload, _server, conn, block>>

SetListUnsubscribe ==
    /\ Len(_message) < MaxHeaders
    /\ \E u \in Unsubscribes :
           Stored("set_list_unsubscribe", set_list_unsubscribe(_message, u),
                  <<u>>, <<>>)
    /\ UNCHANGED <<_payload, _server, conn, block>>

SetCustom ==
    /\ Len(_message) < MaxHeaders
    /\ \E key \in CustomKeys, value \in CustomValues :
           LET r == set_custom(_message, key, value)
           IN  Stored("set_custom", r, <<key, value>>, r.text)
    /\ UNCHANGED <<_payload, _server, conn, block>>

\* the builder alone: messages and their headers
NextHeaders ==
    \/ NewMessage
    \/ SetDate
    \/ SetFromAddr
    \/ SetSubject
    \/ SetMessageId
    \/ SetListUnsubscribe
    \/ SetCustom

SpecHeaders == Init /\ [][NextHeaders]_vars

-----------------------------------------------------------------------------
(* The content of the message: EmailMessage.set_content, add_alternative,    *)
(* add_attachment as SmtpMessage calls them. A part is its content type, its *)
(* body (kept whole), its file name and, for a multipart, its parts.         *)

Leaf(ctype, body, filename) ==
    [ctype |-> ctype, body |-> body, filename |-> filename, parts |-> <<>>]

IsMultipart(p) == p.ctype \in {"multipart/alternative", "multipart/mixed"}

Kept(p) == [payload |-> p, raised |-> "none"]

\* EmailMessage.set_content(text): replaces the content of a message that is
\* not a multipart, and raises TypeError on one that is
EmailMessage_set_content(p, text) ==
    IF IsMultipart(p) THEN [payload |-> p, raised |-> "TypeError"]
    ELSE Kept(Leaf("text/plain", text, ""))

\* EmailMessage.make_alternative / make_mixed and the attach that follows
\* them: a message that is not yet of the wanted type becomes a multipart of
\* it, its content (if it has any) moved into the first part; then the part
\* is appended. A multipart of a type that may not be converted raises
\* ValueError.
add_multipart(p, subtype, disallowed, part) ==
    IF p.ctype = subtype
    THEN Kept([p EXCEPT !.parts = Append(p.parts, part)])
    ELSE IF IsMultipart(p) /\ p.ctype \in disallowed
    THEN [payload |-> p, raised |-> "ValueError"]
    ELSE Kept([ctype |-> subtype, body |-> "", filename |-> "",
               parts |-> (IF p.ctype = "none" THEN <<>> ELSE <<p>>) \o <<part>>])

\* EmailMessage.add_alternative(html, subtype="html")
EmailMessage_add_alternative(p, html) ==
    add_multipart(p, "multipart/alternative", {"multipart/mixed"},
                  Leaf("text/html", html, ""))

\* EmailMessage.add_attachment(data, maintype, subtype, filename)
EmailMessage_add_attachment(p, data, ctype, filename) ==
    add_multipart(p, "multipart/mixed", {}, Leaf(ctype, data, filename))

\* `if text:` and `if html:`: None and the empty string are skipped alike
Truthy(x) == x # None /\ x # ""

Texts == {None, "", "A", "B"}
Htmls == {None, "", "<A>"}

\* set_content(text, html): an exception of the first step ends the call
set_content(p, text, html) ==
    LET r1 == IF Truthy(text) THEN EmailMessage_set_content(p, text) ELSE Kept(p)
    IN  IF r1.raised # "none" THEN r1
        ELSE IF Truthy(html) THEN EmailMessage_add_alternative(r1.payload, html)
        ELSE r1

\* the paths handed to add_attachment: no such file, a directory, a file that
\* may not be read, and two files
Paths == {"missing", "dir", "locked", "f.xyz", "g.txt"}

\* Path(path).exists(), .is_file(), and whether open("rb") succeeds
exists(path) == path # "missing"
is_file(path) == path \in {"locked", "f.xyz", "g.txt"}
opens(path) == path # "locked"

\* mimetypes.guess_type(path)[0], with the default of lines 338-339
guess_type(path) ==
    IF path = "g.txt" THEN "text/plain" ELSE "application/octet-stream"

\* file.read()
read(path) == "bytes of " \o path

RECURSIVE PathListsUpTo(_)
PathListsUpTo(n) ==
    IF n = 0 THEN {<<>>}
    ELSE LET shorter == PathListsUpTo(n - 1)
         IN  shorter \cup {Append(l, a) : l \in {x \in shorter : Len(x) = n - 1},
                                           a \in Paths}

PathLists == PathListsUpTo(MaxParts)

\* an add_attachment that gives up at the first path it cannot attach
RECURSIVE add_attachment_stopping(_, _)
add_attachment_stopping(p, attachment_paths) ==
    IF attachment_paths = <<>> THEN p
    ELSE LET path == Head(attachment_paths)
         IN  IF exists(path) /\ is_file(path) /\ opens(path)
             THEN add_attachment_stopping(
                      EmailMessage_add_attachment(p, read(path), guess_type(path),
                                                  path).payload,
                      Tail(attachment_paths))
             ELSE p

\* add_attachment(attachment_paths): each path in turn; a path that is no
\* regular file is logged as a warning, an exception of reading or attaching
\* is logged as an error, and the loop goes on
RECURSIVE add_attachment(_, _)
add_attachment(p, attachment_paths) ==
    IF attachment_paths = <<>> THEN p
    ELSE LET path == Head(attachment_paths)
             after ==
                IF exists(path) /\ is_file(path)
                THEN IF opens(path)
                     THEN EmailMessage_add_attachment(
                              p, read(path), guess_type(path), path).payload
                     ELSE p
                ELSE p
         IN  add_attachment(after, Tail(attachment_paths))

SetContent ==
    /\ Len(_payload.parts) < MaxParts
    /\ \E text \in Texts, html \in Htmls :
           LET r == set_content(_payload, text, html)
           IN  /\ _payload' = r.payload
               /\ passed' = <<text, html>>
               /\ result' = Outcome("set_content", r.raised, <<>>, "none")
    /\ calls' = <<>>
    /\ UNCHANGED <<_message, _server, conn, block>>

AddAttachment ==
    /\ Len(_payload.parts) < MaxParts
    /\ \E attachment_paths \in PathLists :
           /\ _payload' = add_attachment(_payload, attachment_paths)
           /\ passed' = <<attachment_paths>>
    /\ result' = Returned("add_attachment")
    /\ calls' = <<>>
    /\ UNCHANGED <<_message, _server, conn, block>>

\* the builder alone: messages and their content
NextContent ==
    \/ NewMessage
    \/ SetContent
    \/ AddAttachment

SpecContent == Init /\ [][NextContent]_vars

-----------------------------------------------------------------------------
(* The SMTP library (smtplib) as the client sees it *)

\* the classes under smtplib.SMTPException; OSError and its subclasses
\* (socket and ssl errors) are not among them
SMTPExceptions ==
    {"SMTPConnectError", "SMTPNotSupportedError", "SMTPAuthenticationError",
     "SMTPServerDisconnected", "SMTPSenderRefused", "SMTPRecipientsRefused",
     "SMTPDataError", "SMTPResponseException"}

\* smtplib.SMTP(host, port): the TCP connection and the greeting
OpenOutcomes == {"ok", "SMTPConnectError", "OSError"}

\* SMTP.starttls(): refused by the server, or a failed handshake (ssl.SSLError,
\* an OSError)
StartTlsOutcomes == {"ok", "SMTPNotSupportedError", "SSLError"}

\* SMTP.login(username, password)
LoginOutcomes == {"ok", "SMTPAuthenticationError"}

\* SMTP.quit() and SMTP.sendmail() on an object whose socket is closed raise
\* SMTPServerDisconnected ('please run connect() first')
QuitOutcomes(c) ==
    IF c.sock THEN {"ok", "SMTPServerDisconnected"}
    ELSE {"SMTPServerDisconnected"}

\* SMTP.sendmail(from_addr, to_addrs, msg): the server refuses the sender or
\* the data, or drops the connection, or msg does not encode (not an
\* SMTPException); with from_addr None it fails in smtplib before anything
\* is sent
SendmailOutcomes(c, from_addr) ==
    IF ~c.sock THEN {"SMTPServerDisconnected"}
    ELSE IF from_addr = NoHeader THEN {"TypeError"}
    ELSE {"ok", "SMTPSenderRefused", "SMTPDataError", "SMTPServerDisconnected",
          "UnicodeEncodeError"}


\* one entry of `calls`: the function called, its arguments and how the call
\* ended ("ok", or the exception it raised)
Call(fn, args, outcome) == [fn |-> fn, args |-> args, outcome |-> outcome]

Called(fn) == \E i \in 1..Len(calls) : calls[i].fn = fn

CountCalls(fn) == Cardinality({i \in 1..Len(calls) : calls[i].fn = fn})

-----------------------------------------------------------------------------
(* SmtpClient *)

\* The effect of a client method: the client's fields after it, the calls it
\* made and the exception that leaves it ("none": it returned).
Effect(server, c, made, raised, text) ==
    [server |-> server, conn |-> c, calls |-> made, raised |-> raised,
     text |-> text]

\* connect(), lines 595-597: already holding an SMTP object
connect_already ==
    Effect(_server, conn, <<>>, "none", <<>>)

\* connect(), lines 605-607: what the except clause makes of an exception of
\* the try block
connect_except(e) ==
    IF e \in SMTPExceptions
    THEN [raised |-> "SmtpConnectionError", text |-> <<"Connection error: ", e>>]
    ELSE [raised |-> e, text |-> <<e>>]

\* a connect() that logs in on the plain connection and starts TLS afterwards
connect_login_first(o1, o2, o3) ==
    LET c0 == [tls |-> FALSE, auth |-> FALSE, sock |-> TRUE]
        c1 == [c0 EXCEPT !.auth = TRUE]
        c2 == [c1 EXCEPT !.tls = TRUE]
        k1 == <<Call("SMTP", <<>>, o1)>>
        k2 == Append(k1, Call("login", <<>>, o3))
        k3 == Append(k2, Call("starttls", <<>>, o2))
    IN  IF o1 # "ok"
        THEN Effect(_server, conn, k1,
                    connect_except(o1).raised, connect_except(o1).text)
        ELSE IF o3 # "ok"
        THEN Effect(SMTP, c0, k2,
                    connect_except(o3).raised, connect_except(o3).text)
        ELSE IF o2 # "ok"
        THEN Effect(SMTP, c1, k3,
                    connect_except(o2).raised, connect_except(o2).text)
        ELSE Effect(SMTP, c2, k3, "none", <<>>)

\* connect(), lines 599-607, with the outcomes o1, o2, o3 of SMTP(), starttls()
\* and login(). self._server is assigned as soon as SMTP() returns, and
\* nothing resets it when a later step raises.
connect_try(o1, o2, o3) ==
    LET c0 == [tls |-> FALSE, auth |-> FALSE, sock |-> TRUE]
        c1 == [c0 EXCEPT !.tls = TRUE]
        c2 == [c1 EXCEPT !.auth = TRUE]
        k1 == <<Call("SMTP", <<>>, o1)>>
        k2 == Append(k1, Call("starttls", <<>>, o2))
        k3 == Append(k2, Call("login", <<>>, o3))
    IN  IF o1 # "ok"
        THEN Effect(_server, conn, k1,
                    connect_except(o1).raised, connect_except(o1).text)
        ELSE IF o2 # "ok"
        THEN Effect(SMTP, c0, k2,
                    connect_except(o2).raised, connect_except(o2).text)
        ELSE IF o3 # "ok"
        THEN Effect(SMTP, c1, k3,
                    connect_except(o3).raised, connect_except(o3).text)
        ELSE Effect(SMTP, c2, k3, "none", <<>>)

\* connect() without the check of lines 595-597
connect_unguarded(o1, o2, o3) == connect_try(o1, o2, o3)

connect(o1, o2, o3) ==
    IF _server # None THEN connect_already ELSE connect_try(o1, o2, o3)

\* disconnect(), lines 614-617, with the outcome q of quit(): an exception of
\* quit() leaves the method before self._server = None. quit() closes the
\* socket either way.
disconnect_held(q) ==
    LET c == [conn EXCEPT !.sock = FALSE]
        k == <<Call("quit", <<>>, q)>>
    IN  IF q = "ok"
        THEN Effect(None, NoConn, k, "none", <<>>)
        ELSE Effect(_server, c, k, q, <<q>>)

disconnect(q) ==
    IF _server # None THEN disconnect_held(q)
    ELSE Effect(_server, conn, <<>>, "none", <<>>)

\* except clauses that log the exception and return
send_email_except_logged(e, text) == [raised |-> "none", text |-> <<>>]

\* send_email(), lines 645-650: the two except clauses. Every exception of
\* the try block is an Exception, the client's own SmtpConnectionError and
\* SmtpRecipientError included.
send_email_except(e, text) ==
    IF e \in SMTPExceptions
    THEN [raised |-> "SmtpSendError",
          text |-> <<"Failed to send email: ">> \o text]
    ELSE [raised |-> "SmtpSendError",
          text |-> <<"An error occurred: ">> \o text]

NotConnectedText == <<"Not connected to any SMTP server. Please connect first.">>

NoRecipientsText ==
    <<"No recipients specified. Please provide at least one recipient.">>

\* send_email(), lines 633-644: the try block, with the outcome s of sendmail
send_email_try(message, s) ==
    LET all_recipients == get_recipients(message)
        k == <<Call("sendmail",
                    <<GetItem(message, "From"), all_recipients,
                      to_string(message)>>, s)>>
        c == IF s = "SMTPServerDisconnected" THEN [conn EXCEPT !.sock = FALSE]
             ELSE conn
    IN  IF _server = None
        THEN Effect(_server, conn, <<>>,
                    "SmtpConnectionError", NotConnectedText)
        ELSE IF all_recipients = {}
        THEN Effect(_server, conn, <<>>,
                    "SmtpRecipientError", NoRecipientsText)
        ELSE IF s # "ok"
        THEN Effect(_server, c, k, s, <<s>>)
        ELSE Effect(_server, conn, k, "none", <<>>)

\* a send_email that drops the SMTP object when sendmail fails
send_email_dropping(message, s) ==
    LET t == send_email_try(message, s)
        x == send_email_except(t.raised, t.text)
    IN  IF t.raised = "none" THEN t
        ELSE [t EXCEPT !.raised = x.raised, !.text = x.text,
                       !.server = IF t.calls = <<>> THEN t.server ELSE None,
                       !.conn = IF t.calls = <<>> THEN t.conn ELSE NoConn]

send_email(message, s) ==
    LET t == send_email_try(message, s)
    IN  IF t.raised = "none" THEN t
        ELSE [t EXCEPT !.raised = send_email_except(t.raised, t.text).raised,
                       !.text = send_email_except(t.raised, t.text).text]

\* __exit__(exc_type, ...), lines 579-583, with the outcome q of quit():
\* disconnect() is called first and its exception, if any, leaves __exit__;
\* otherwise __exit__ returns False or None and the body's exception, if
\* any, goes on to the caller.
exit_block(exc_type, q) ==
    LET d == disconnect(q)
        k == <<Call("disconnect", <<>>, d.raised)>> \o d.calls
    IN  IF d.raised # "none" THEN [d EXCEPT !.calls = k]
        ELSE [d EXCEPT !.calls = k, !.raised = exc_type,
                       !.text = IF exc_type = "none" THEN <<>> ELSE <<exc_type>>]

\* what the body of a `with` block may raise: nothing, an error of the
\* client, or an error of the caller's own code
BodyExceptions == {"none", "SmtpSendError", "KeyError"}

Apply(op, e, exc_type) ==
    /\ _server' = e.server
    /\ conn' = e.conn
    /\ calls' = e.calls
    /\ result' = Outcome(op, e.raised, e.text, exc_type)

\* what connect() can do, over all the outcomes of the library's calls
ConnectEffects ==
    {connect(o1, o2, o3) :
        o1 \in OpenOutcomes, o2 \in StartTlsOutcomes, o3 \in LoginOutcomes}

Connect ==
    /\ \E e \in ConnectEffects : Apply("connect", e, "none")
    /\ UNCHANGED <<_message, _payload, passed, block>>

Disconnect ==
    /\ \E q \in QuitOutcomes(conn) : Apply("disconnect", disconnect(q), "none")
    /\ UNCHANGED <<_message, _payload, passed, block>>

SendEmail ==
    /\ \E s \in SendmailOutcomes(conn, GetItem(_message, "From")) :
           Apply("send_email", send_email(_message, s), "none")
    /\ UNCHANGED <<_message, _payload, passed, block>>

\* `with client:` calls __enter__; the body is entered only if it returns
Enter ==
    /\ block = "out"
    /\ \E e \in ConnectEffects :
           /\ Apply("__enter__", e, "none")
           /\ block' = IF e.raised = "none" THEN "body" ELSE "out"
    /\ UNCHANGED <<_message, _payload, passed>>

\* the body ends, normally or with an exception, and __exit__ runs
Exit ==
    /\ block = "body"
    /\ \E exc_type \in BodyExceptions, q \in QuitOutcomes(conn) :
           Apply("__exit__", exit_block(exc_type, q), exc_type)
    /\ block' = "out"
    /\ UNCHANGED <<_message, _payload, passed>>

Next ==
    \/ NewMessage
    \/ SetFromAddr
    \/ SetRecipients
    \/ Connect
    \/ Disconnect
    \/ SendEmail
    \/ Enter
    \/ Exit

Spec == Init /\ [][Next]_vars

-----------------------------------------------------------------------------
(* The states the claims speak of *)

Disconnected == _server = None

\* an authenticated session on an open socket
Connected == _server # None /\ conn.tls /\ conn.auth /\ conn.sock

\* the addresses of the recipient headers that are addresses
ValidRecipients(m) == {a \in get_recipients(m) : IsValidEmail(a)}

\* the outcomes of the calls of fn among the calls of the last operation
OutcomesOf(fn) == {calls[i].outcome : i \in {j \in 1..Len(calls) : calls[j].fn = fn}}

-----------------------------------------------------------------------------
(* C1 *)

\* C1: send_email called on a client that holds no connection raises
\* SmtpConnectionError and does not call sendmail.
C1_SendWhileDisconnected ==
    [][(Disconnected /\ result'.op = "send_email")
        => (result'.raised = "SmtpConnectionError" /\ ~Called("sendmail")')]_vars

-----------------------------------------------------------------------------
(* C2 *)

\* C2: send_email called on a Connected client, with a message none of whose
\* To, CC and BCC addresses is valid, raises SmtpRecipientError and does not
\* call sendmail.
C2_SendWithoutRecipients ==
    [][(Connected /\ ValidRecipients(_message) = {} /\ result'.op = "send_email")
        => (result'.raised = "SmtpRecipientError" /\ ~Called("sendmail")')]_vars

-----------------------------------------------------------------------------
(* C3 *)

\* C3: a connect() that has failed with SmtpConnectionError leaves the client
\* Disconnected: it holds no connection handle.
C3_FailedConnectLeavesDisconnected ==
    (result.op = "connect" /\ result.raised = "SmtpConnectionError")
        => Disconnected

-----------------------------------------------------------------------------
(* C4 *)

\* C4: once __exit__ has run, the client holds no connection handle, whatever
\* the body raised and however quit() ended.
C4_ExitLeavesDisconnected ==
    result.op = "__exit__" => Disconnected

-----------------------------------------------------------------------------
(* C5 *)

LoginRejected ==
    /\ result.op = "connect"
    /\ result.raised = "SmtpConnectionError"
    /\ OutcomesOf("login") = {"SMTPAuthenticationError"}

\* C5: a send_email that follows a connect() whose login was rejected (here
\* with a message that has a valid recipient) raises SmtpConnectionError and
\* does not call sendmail.
C5_SendAfterRejectedLogin ==
    [][(LoginRejected /\ ValidRecipients(_message) # {}
            /\ result'.op = "send_email")
        => (result'.raised = "SmtpConnectionError" /\ ~Called("sendmail")')]_vars

-----------------------------------------------------------------------------
(* C6 *)

\* C6: __exit__ calls disconnect() exactly once, and the exception of the
\* body, if there is one, is the exception that reaches the caller.
C6_ExitDisconnectsOnceAndPropagates ==
    result.op = "__exit__"
        => /\ CountCalls("disconnect") = 1
           /\ result.exc_type # "none" => result.raised = result.exc_type

-----------------------------------------------------------------------------
(* C7 *)

\* C7: connect() on a client that holds a connection returns normally, calls
\* nothing of the SMTP library, and leaves the handle and the session as
\* they were.
C7_ConnectWhileConnectedIsNoOp ==
    [][(~Disconnected /\ result'.op = "connect")
        => /\ result'.raised = "none"
           /\ calls' = <<>>
           /\ _server' = _server
           /\ conn' = conn]_vars

\* connect() has returned without a call on a client with an authenticated
\* session
C7_Witness ==
    /\ result.op = "connect"
    /\ result.raised = "none"
    /\ calls = <<>>
    /\ Connected

-----------------------------------------------------------------------------
(* C8 *)

\* C8: disconnect() called on a Connected client calls quit() and leaves the
\* client Disconnected; called on a Disconnected client it calls nothing,
\* raises nothing and changes nothing.
C8_DisconnectLeavesDisconnected ==
    [][result'.op = "disconnect"
        => /\ Connected => (Called("quit")' /\ Disconnected')
           /\ Disconnected => /\ calls' = <<>>
                              /\ result'.raised = "none"
                              /\ UNCHANGED <<_server, conn>>]_vars

-----------------------------------------------------------------------------
(* C9 *)

\* C9: when sendmail fails, send_email raises SmtpSendError, and the text of
\* the error holds the error of sendmail.
C9_SendFailureIsSmtpSendError ==
    \A e \in OutcomesOf("sendmail") :
        (result.op = "send_email" /\ e # "ok")
            => /\ result.raised = "SmtpSendError"
               /\ e \in Range(result.text)

\* the server has refused the sender of a message with a valid recipient,
\* sent over an authenticated session
C9_Witness ==
    /\ result.op = "send_email"
    /\ Connected
    /\ ValidRecipients(_message) # {}
    /\ OutcomesOf("sendmail") = {"SMTPSenderRefused"}
    /\ result.raised = "SmtpSendError"
    /\ result.text = <<"Failed to send email: ", "SMTPSenderRefused">>

-----------------------------------------------------------------------------
(* C10 *)

ValidatedOf(lists) ==
    Range(_validate_emails(lists[1]) \o _validate_emails(lists[2])
            \o _validate_emails(lists[3]))

\* a message as SmtpMessage() makes it
Fresh == _message = <<>> /\ _payload = NoContent

-----------------------------------------------------------------------------
(* C11 *)

\* C11: on a fresh message, set_recipients(to, cc, bcc) followed by
\* get_recipients() returns exactly the set of the addresses of to, cc and
\* bcc that pass validation: no invalid address, no empty string, and the
\* empty list when none passed.
C11_RecipientsAreTheValidated ==
    [][(Fresh /\ result'.op = "set_recipients")
        => get_recipients(_message') = ValidatedOf(passed')]_vars

-----------------------------------------------------------------------------
(* C19 *)

\* C19: after set_recipients(to, cc, bcc) on a fresh message, a To, CC or
\* BCC header is there exactly when an address of its group passed
\* validation, no such header has an empty value, and the call did not
\* raise.
C19_HeaderOnlyForValidatedGroup ==
    [][(Fresh /\ result'.op = "set_recipients")
        => /\ result'.raised = "none"
           /\ \A i \in 1..3 :
                LET name == <<"To", "CC", "BCC">>[i]
                IN  /\ Contains(_message', name)
                        <=> _validate_emails(passed'[i]) # <<>>
                    /\ Contains(_message', name)
                        => GetItem(_message', name) # <<>>]_vars

-----------------------------------------------------------------------------
(* C16 *)

ClientOperations == {"connect", "disconnect", "send_email", "__enter__", "__exit__"}

LibraryErrors == {"SmtpConnectionError", "SmtpRecipientError", "SmtpSendError"}

LibraryCalls == {"SMTP", "starttls", "login", "quit", "sendmail"}

\* C16: a client operation ends by returning or by raising one of the
\* library's own errors (__exit__ may also let the exception of the body
\* through), and it does not return when one of its SMTP calls has failed.
C16_FailuresAreLibraryErrors ==
    result.op \in ClientOperations
        => /\ result.raised \in
                {"none"} \cup LibraryErrors
                    \cup (IF result.op = "__exit__" THEN {result.exc_type} ELSE {})
           /\ \A i \in 1..Len(calls) :
                (calls[i].fn \in LibraryCalls /\ calls[i].outcome # "ok")
                    => result.raised # "none"

-----------------------------------------------------------------------------
(* C17 *)

ConnectSteps == <<"SMTP", "starttls", "login">>

\* C17: connect() on a client that holds no connection calls SMTP(),
\* starttls() and login() in that order, each only after the one before it
\* has succeeded, and returns normally only after login() has succeeded, on
\* a session that is then encrypted and authenticated.
C17_ConnectStepsInOrder ==
    [][(Disconnected /\ result'.op \in {"connect", "__enter__"})
        => LET k == calls'
           IN  /\ Len(k) \in 1..3
               /\ \A i \in 1..Len(k) : k[i].fn = ConnectSteps[i]
               /\ \A i \in 1..(Len(k) - 1) : k[i].outcome = "ok"
               /\ result'.raised = "none"
                    => /\ Len(k) = 3
                       /\ k[3].outcome = "ok"
                       /\ Connected']_vars

\* connect() has made its three calls and returned
C17_Witness ==
    /\ result.op = "connect"
    /\ result.raised = "none"
    /\ Len(calls) = 3
    /\ calls[3] = Call("login", <<>>, "ok")
    /\ Connected

-----------------------------------------------------------------------------
(* C18 *)

\* C18: a send_email on a client that holds a connection, with a message
\* that has a validated recipient, calls sendmail exactly once, with the
\* From header, the set of the validated To, CC and BCC addresses and the
\* serialized message; any other send_email does not call sendmail.
C18_OneSendmailWithEnvelope ==
    [][result'.op = "send_email"
        => IF ~Disconnected /\ ValidRecipients(_message) # {}
           THEN /\ CountCalls("sendmail")' = 1
                /\ calls'[1].args = <<GetItem(_message, "From"),
                                      ValidRecipients(_message),
                                      to_string(_message)>>
           ELSE ~Called("sendmail")']_vars

-----------------------------------------------------------------------------
(* C20 *)

\* C20: a connect() that follows a connect() that raised makes a fresh
\* attempt (it calls SMTP() again), and if it returns the client is
\* Connected.
C20_ConnectAfterFailureRetries ==
    [][(result.op = "connect" /\ result.raised # "none"
            /\ result'.op = "connect")
        => /\ Called("SMTP")'
           /\ result'.raised = "none" => Connected']_vars

-----------------------------------------------------------------------------
(* C12 *)

\* the header a setter sets and the value a call of it assigns
HeaderOf(op) ==
    CASE op = "set_date" -> "Date"
      [] op = "set_from_addr" -> "From"
      [] op = "set_subject" -> "Subject"
      [] op = "set_message_id" -> "Message-ID"
      [] op = "set_list_unsubscribe" -> "List-Unsubscribe"

AssignedBy(op, given) ==
    CASE op = "set_date" -> IF given[1] = NoHeader THEN formatdate ELSE given[1]
      [] op = "set_from_addr" -> Sender
      [] op = "set_subject" -> given[1]
      [] op = "set_message_id" -> make_msgid
      [] op = "set_list_unsubscribe" -> given[1]

SingleValuedSetters ==
    {"set_date", "set_from_addr", "set_subject", "set_message_id",
     "set_list_unsubscribe"}

\* C12: a call of a single-valued setter, the first on the message or a
\* later one, does not raise, and after it the message has one header of
\* that name, with the value of this call.
C12_SetterOverwrites ==
    [][result'.op \in SingleValuedSetters
        => /\ result'.raised = "none"
           /\ CountItems(_message', HeaderOf(result'.op)) = 1
           /\ GetItem(_message', HeaderOf(result'.op))
                = AssignedBy(result'.op, passed')]_vars

-----------------------------------------------------------------------------
(* C14 *)

\* a header assignment the message refuses: a value with a line feed in it,
\* or a second header of a name allowed once
InvalidAssignment(m, key, value) ==
    \/ \E i \in 1..Len(value) : value[i] = "\n"
    \/ key \in UniqueHeaders /\ CountItems(m, key) > 0

-----------------------------------------------------------------------------
(* C13 *)

\* a path add_attachment can attach: a regular file that can be read
Attachable(path) == path \in {"f.xyz", "g.txt"}

\* the content with the files attached one after the other
RECURSIVE Attached(_, _)
Attached(p, files) ==
    IF files = <<>> THEN p
    ELSE Attached(EmailMessage_add_attachment(
                      p, read(Head(files)), guess_type(Head(files)),
                      Head(files)).payload,
                  Tail(files))

\* C13: add_attachment returns normally whatever paths it is given; the
\* paths that do not exist, are no regular file or cannot be read leave the
\* message as it was, and the other paths of the call are attached in the
\* order given. The headers are not touched.
C13_BadPathsAreSkipped ==
    [][result'.op = "add_attachment"
        => /\ result'.raised = "none"
           /\ _message' = _message
           /\ _payload' = Attached(_payload, SelectSeq(passed'[1], Attachable))
           /\ (\A i \in 1..Len(passed'[1]) : ~Attachable(passed'[1][i]))
                => _payload' = _payload]_vars

\* add_attachment has been given a missing path and then a file, on a
\* message with a text body: the file is attached after the body
C13_Witness ==
    /\ result.op = "add_attachment"
    /\ result.raised = "none"
    /\ passed = <<<<"missing", "g.txt">>>>
    /\ _payload.ctype = "multipart/mixed"
    /\ _payload.parts = <<Leaf("text/plain", "A", ""),
                          Leaf("text/plain", "bytes of g.txt", "g.txt")>>

-----------------------------------------------------------------------------
(* C15 *)

PartTypes(p) == [i \in 1..Len(p.parts) |-> p.parts[i].ctype]

\* C15: set_content(text, html) on a fresh message does not raise, and makes
\* the message a multipart/alternative of a text/plain and a text/html part
\* when both are given, a single text/plain part when only text is given, a
\* single text/html part (no multipart) when only html is given, and leaves
\* it without content when neither is given.
C15_BodyStructure ==
    [][(Fresh /\ result'.op = "set_content")
        => LET text == Truthy(passed'[1])
               html == Truthy(passed'[2])
           IN  /\ result'.raised = "none"
               /\ (text /\ html)
                    => /\ _payload'.ctype = "multipart/alternative"
                       /\ PartTypes(_payload') = <<"text/plain", "text/html">>
               /\ (text /\ ~html)
                    => _payload' = Leaf("text/plain", passed'[1], "")
               /\ (~text /\ html)
                    => _payload' = Leaf("text/html", passed'[2], "")
               /\ (~text /\ ~html) => _payload' = NoContent]_vars

-----------------------------------------------------------------------------
(* C21 *)

\* the message without its BCC headers
WithoutBcc(m) == LET NotBcc(h) == h[1] # "BCC" IN SelectSeq(m, NotBcc)

\* the addresses of the BCC header that are in no To or CC header
BccOnly(m) ==
    {a \in Range(get_bcc_addr(m)) :
        a # <<>> /\ a \notin Range(get_to_addr(m) \o get_cc_addr(m))}

\* sub occurs in the line s
Occurs(sub, s) ==
    \E k \in 0..(Len(s) - Len(sub)) : SubSeq(s, k + 1, k + Len(sub)) = sub

\* C21: when a send_email on a Connected client has sent a message that has
\* BCC-only addresses, the payload of its sendmail call has no BCC header
\* line and none of those addresses in it, and is the serialization of the
\* message without its BCC header, so that it is the same for every BCC
\* list.
C21_PayloadHidesBcc ==
    (result.op = "send_email" /\ result.raised = "none" /\ Connected
        /\ BccOnly(_message) # {})
        => \A i \in 1..Len(calls) :
            calls[i].fn = "sendmail"
                => LET payload == calls[i].args[3]
                   IN  /\ \A j \in 1..Len(payload) :
                            /\ payload[j] # <<>> => payload[j][1] # "BCC"
                            /\ \A a \in BccOnly(_message) :
                                    ~Occurs(a, payload[j])
                       /\ payload = to_string(WithoutBcc(_message))

====
